---- MODULE Spec2Model ----
(***************************************************************************)
(* A model of the shell in src/src/main.rs: the line parser `parse`, the   *)
(* executable search `find_executable`, the builtins and the               *)
(* read-eval-print loop of `main`.                                         *)
(*                                                                         *)
(* A Rust String is modelled as a sequence of one-character strings, so    *)
(* that scanning, slicing and joining are computed and not assumed.        *)
(* A printed line is its format string with the values of its arguments.   *)
(***************************************************************************)
EXTENDS Integers, Sequences, FiniteSets, TLC

(***************************************************************************)
(* Bounds of the model.                                                    *)
(***************************************************************************)
\* longest generated input line (every line over Alphabet up to this length)
MaxLineLen == 3
\* largest number n of the generated lines "exit n"
MaxExitArg == 260
\* longest line handed to parse on its own
MaxParseLen == 4
\* longest generated line of whitespace only
MaxBlankLen == 3
\* most directories in a generated search path
MaxPathDirs == 3

(***************************************************************************)
(* Characters.                                                             *)
(***************************************************************************)
SQ == "'"
DQ == "\""
BS == "\\"
SP == " "
TAB == "\t"
NL == "\n"
CR == "\r"

Digits == <<"0", "1", "2", "3", "4", "5", "6", "7", "8", "9">>

\* char::is_whitespace, restricted to the characters of the model
is_whitespace(ch) == ch \in {SP, TAB, NL, CR}

\* the characters generated input lines are made of
Alphabet == {"a", "b", SQ, DQ, BS, SP}

(***************************************************************************)
(* parse (src/src/main.rs:84-138).                                         *)
(***************************************************************************)
RECURSIVE find(_, _, _)
\* it.by_ref().find(|(_, ch)| *ch == q): the index of the first q at or
\* after position from, 0 when the iterator runs out (None)
find(input, from, q) ==
    IF from > Len(input) THEN 0
    ELSE IF input[from] = q THEN from
    ELSE find(input, from + 1, q)

RECURSIVE skip_whitespace(_, _)
\* the peek loop of the whitespace branch: the first position at or after
\* from that holds no whitespace (Len(input) + 1 when there is none)
skip_whitespace(input, from) ==
    IF from > Len(input) THEN from
    ELSE IF ~is_whitespace(input[from]) THEN from
    ELSE skip_whitespace(input, from + 1)

\* results of parse: Ok(Cmd), Err(anyhow error), or a panic
Cmd(program, args) == [program |-> program, args |-> args]
ParseOk(c) == [kind |-> "Ok", cmd |-> c, msg |-> ""]
ParseErr(m) == [kind |-> "Err", cmd |-> Cmd(<<>>, <<>>), msg |-> m]
ParsePanic(m) == [kind |-> "Panic", cmd |-> Cmd(<<>>, <<>>), msg |-> m]

\* the branch of a quote character at position i: the span up to the closing
\* quote is pushed onto components as a component of its own
quote_branch(input, i, q, components, current_component) ==
    LET closing_quote_index == find(input, i + 1, q) IN
    IF closing_quote_index = 0
    THEN [err |-> TRUE, next |-> 0,
          components |-> components, current_component |-> current_component]
    ELSE [err |-> FALSE, next |-> closing_quote_index + 1,
          components |-> Append(components,
                                SubSeq(input, i + 1, closing_quote_index - 1)),
          current_component |-> current_component]

\* escape_branch with a backslash at the end of the line taken as text
escape_branch_lenient(input, i, components, current_component) ==
    IF i + 1 > Len(input)
    THEN [err |-> FALSE, next |-> i + 1,
          components |-> components,
          current_component |-> Append(current_component, input[i])]
    ELSE [err |-> FALSE, next |-> i + 2,
          components |-> components,
          current_component |-> Append(current_component, input[i + 1])]

\* escape_branch that keeps the backslash in front of the escaped character
escape_branch_keep(input, i, components, current_component) ==
    IF i + 1 > Len(input)
    THEN [err |-> TRUE, next |-> 0,
          components |-> components, current_component |-> current_component]
    ELSE [err |-> FALSE, next |-> i + 2,
          components |-> components,
          current_component |-> current_component \o <<input[i], input[i + 1]>>]

\* the branch of a backslash at position i: the next character is pushed
\* onto current_component, and there must be one
escape_branch(input, i, components, current_component) ==
    IF i + 1 > Len(input)
    THEN [err |-> TRUE, next |-> 0,
          components |-> components, current_component |-> current_component]
    ELSE [err |-> FALSE, next |-> i + 2,
          components |-> components,
          current_component |-> Append(current_component, input[i + 1])]

\* the branch of a whitespace character at position i: current_component is
\* pushed (empty or not) and the following whitespace is skipped
whitespace_branch(input, i, components, current_component) ==
    [err |-> FALSE, next |-> skip_whitespace(input, i + 1),
     components |-> Append(components, current_component),
     current_component |-> <<>>]

\* the branch of any other character
char_branch(input, i, components, current_component) ==
    [err |-> FALSE, next |-> i + 1,
     components |-> components,
     current_component |-> Append(current_component, input[i])]

\* parse_finish without the flush of the last component
parse_finish_no_flush(components, current_component) ==
    IF components = <<>>
    THEN ParsePanic("removal index (is 0) should be < len (is 0)")
    ELSE ParseOk(Cmd(Head(components), Tail(components)))

\* after the loop: flush a non-empty current_component, then
\* components.remove(0), which panics on an empty vector
parse_finish(components, current_component) ==
    LET all == IF current_component # <<>>
               THEN Append(components, current_component)
               ELSE components
    IN IF all = <<>>
       THEN ParsePanic("removal index (is 0) should be < len (is 0)")
       ELSE ParseOk(Cmd(Head(all), Tail(all)))

RECURSIVE parse_loop(_, _, _, _)
\* the while loop over input.char_indices(), from position i
parse_loop(input, i, components, current_component) ==
    IF i > Len(input) THEN parse_finish(components, current_component)
    ELSE LET ch == input[i] IN
      IF ch = SQ THEN
        LET r == quote_branch(input, i, SQ, components, current_component) IN
        IF r.err THEN ParseErr("did not find a closing single quote")
        ELSE parse_loop(input, r.next, r.components, r.current_component)
      ELSE IF ch = DQ THEN
        LET r == quote_branch(input, i, DQ, components, current_component) IN
        IF r.err THEN ParseErr("did not find a closing double quote")
        ELSE parse_loop(input, r.next, r.components, r.current_component)
      ELSE IF ch = BS THEN
        LET r == escape_branch(input, i, components, current_component) IN
        IF r.err THEN ParseErr("expected a character after '\\', but got nothing")
        ELSE parse_loop(input, r.next, r.components, r.current_component)
      ELSE IF is_whitespace(ch) THEN
        LET r == whitespace_branch(input, i, components, current_component) IN
        parse_loop(input, r.next, r.components, r.current_component)
      ELSE
        LET r == char_branch(input, i, components, current_component) IN
        parse_loop(input, r.next, r.components, r.current_component)

parse(input) ==
    IF input = <<>> THEN ParsePanic("assertion failed: !input.is_empty()")
    ELSE parse_loop(input, 1, <<>>, <<>>)

(***************************************************************************)
(* StrExt::trim_newline (src/src/main.rs:256-268) and str::trim_start.     *)
(***************************************************************************)
RECURSIVE trim_start_spaces(_)
\* trim_start that removes spaces only
trim_start_spaces(s) ==
    IF s = <<>> THEN s
    ELSE IF Head(s) = SP THEN trim_start_spaces(Tail(s))
    ELSE s

RECURSIVE trim_start(_)
trim_start(s) ==
    IF s = <<>> THEN s
    ELSE IF is_whitespace(Head(s)) THEN trim_start(Tail(s))
    ELSE s

strip_suffix(s, ch) ==
    IF s # <<>> /\ s[Len(s)] = ch
    THEN [some |-> TRUE, stripped |-> SubSeq(s, 1, Len(s) - 1)]
    ELSE [some |-> FALSE, stripped |-> s]

trim_newline(s) ==
    LET a == strip_suffix(s, NL) IN
    IF a.some
    THEN LET b == strip_suffix(a.stripped, CR) IN
         IF b.some THEN b.stripped ELSE a.stripped
    ELSE s

(***************************************************************************)
(* Names and paths the model uses, as Rust strings.                        *)
(***************************************************************************)
N_exit == <<"e", "x", "i", "t">>
N_echo == <<"e", "c", "h", "o">>
N_type == <<"t", "y", "p", "e">>
N_pwd == <<"p", "w", "d">>
N_cd == <<"c", "d">>
N_ls == <<"l", "s">>
N_a == <<"a">>
N_b == <<"b">>
N_f == <<"f">>
N_zz == <<"z", "z">>
TILDE == <<"~">>

\* the static SYSTEM_PATH: the value of PATH when the static is first read
VARIABLE SYSTEM_PATH

(***************************************************************************)
(* The operating system the shell runs on: a fixed directory tree, the     *)
(* environment variable PATH and the executability of the files.  The tree *)
(* does not change while the shell runs.                                   *)
(*   /        a (dir), f (file), h (dir), x (dir), y (dir)                 *)
(*   /x       a (executable), echo (executable), b (file, not executable)  *)
(*   /y       a (executable), ls (executable)                              *)
(* /m is named by PATH and does not exist.                                 *)
(***************************************************************************)
D_root == <<"/">>
D_a == <<"/", "a">>
D_h == <<"/", "h">>
D_x == <<"/", "x">>
D_y == <<"/", "y">>
D_m == <<"/", "m">>
F_f == <<"/", "f">>

Directories == {D_root, D_a, D_h, D_x, D_y}

\* the value of the environment variable PATH
ENV_PATH == <<"/", "m", ":", "/", "x", ":", "/", "y">>
SYSTEM_PATH_SPERATOR == ":"
EXE_SUFFIX == <<>>

None == [some |-> FALSE, val |-> <<>>]
Some(v) == [some |-> TRUE, val |-> v]

\* fs::read_dir(path): the entry names of a directory, in listing order
read_dir(path) ==
    IF path = D_x THEN Some(<<N_a, N_echo, N_b>>)
    ELSE IF path = D_y THEN Some(<<N_a, N_ls>>)
    ELSE IF path = D_root THEN Some(<<N_a, N_f, <<"h">>, <<"x">>, <<"y">>>>)
    ELSE IF path \in Directories THEN Some(<<>>)
    ELSE None

\* the files of the tree that the operating system can execute
is_executable_file(dir, name) ==
    \/ dir = D_x /\ name \in {N_a, N_echo}
    \/ dir = D_y /\ name \in {N_a, N_ls}

\* Path::join of a directory and an entry name (DirEntry::path)
join_path(dir, name) ==
    IF dir = D_root THEN dir \o name ELSE dir \o <<"/">> \o name

parent(dir) == IF dir \in {D_a, D_h, D_x, D_y} THEN D_root ELSE dir

\* fs::canonicalize(input) relative to the working directory cwd
canonicalize(cwd, input) ==
    IF input = <<"/">> THEN [kind |-> "Ok", path |-> D_root]
    ELSE IF input = <<".">> THEN [kind |-> "Ok", path |-> cwd]
    ELSE IF input = <<".", ".">> THEN [kind |-> "Ok", path |-> parent(cwd)]
    ELSE IF input = N_a /\ cwd = D_root THEN [kind |-> "Ok", path |-> D_a]
    ELSE IF input = N_f /\ cwd = D_root THEN [kind |-> "Ok", path |-> F_f]
    ELSE IF input = <<"f", "/", "a">> /\ cwd = D_root
         THEN [kind |-> "NotADirectory", path |-> <<>>]
    ELSE [kind |-> "NotFound", path |-> <<>>]

\* env::set_current_dir(path) succeeds on a directory
set_current_dir_ok(path) == path \in Directories

(***************************************************************************)
(* Input lines.                                                            *)
(***************************************************************************)
\* every line over Alphabet of length at most MaxLineLen
GeneratedLines == UNION {[1..n -> Alphabet] : n \in 0..MaxLineLen}

\* lines that name the builtins and the files of the tree
SampleLines == {
    <<"e", "x", "i", "t">>,
    <<"e", "x", "i", "t", SP, "0">>,
    <<"e", "x", "i", "t", SP, "2", "0", "0">>,
    <<"e", "x", "i", "t", SP, "2", "5", "5">>,
    <<"e", "x", "i", "t", SP, "2", "5", "6">>,
    <<"e", "x", "i", "t", SP, "9", "9", "9">>,
    <<"e", "x", "i", "t", SP, "a", "b", "c">>,
    <<"e", "x", "i", "t", SP, "+", "5">>,
    <<"e", "x", "i", "t", SP, "-", "1">>,
    <<"e", "x", "i", "t", SP, "7", SP, "a", "b", "c">>,
    <<"e", "c", "h", "o", SP, SQ, "a", SP, "b", SQ, SP, "c">>,
    <<"e", "c", "h", "o", SP, "a", SQ, "b", SQ>>,
    <<"a", SQ, "b", SQ, "c">>,
    <<SQ, "b", SQ, "a">>,
    <<"e", "c", "h", "o", SP, "a", BS, SP, "b">>,
    <<"e", "c", "h", "o", SP, DQ, "a", SP, "b", DQ>>,
    <<"e", "c", "h", "o", SP, SQ, "u", "n", "t", "e", "r", "m", "i", "n", "a", "t", "e", "d">>,
    <<"e", "c", "h", "o", SP, "a", BS>>,
    <<"e", "c", "h", "o", SP, "a", TAB, "b">>,
    <<"p", "w", "d">>,
    <<"c", "d", SP, "a">>,
    <<"c", "d", SP, ".", ".">>,
    <<"c", "d", SP, "/">>,
    <<"c", "d", SP, "~">>,
    <<"c", "d", SP, "b">>,
    <<"c", "d", SP, SQ, "b", SP, "b", SQ>>,
    <<"c", "d", SP, "f">>,
    <<"c", "d", SP, "f", "/", "a">>,
    <<"c", "d">>,
    <<"c", "d", SP, "a", SP, "b">>,
    <<"t", "y", "p", "e", SP, "e", "c", "h", "o", SP, "a">>,
    <<"t", "y", "p", "e", SP, "z", "z", SP, "l", "s">>,
    <<"t", "y", "p", "e">>,
    <<"t", "y", "p", "e", SP, "c", "d", SP, "b", SP, "e", "x", "i", "t", SP, "p", "w", "d", SP, "t", "y", "p", "e">>,
    <<"l", "s">>,
    <<"l", "s", SP, "a">>,
    <<"z", "z">>,
    <<"e", "c", "h", "o">>,
    <<SQ, SQ, SP, "a">>}

\* what read_line can return: a line with its terminator, a line ended by
\* end of file (no terminator), or nothing at all at end of file
RECURSIVE to_string(_)
\* the decimal text of a natural number
to_string(n) ==
    IF n < 10 THEN <<Digits[n + 1]>>
    ELSE to_string(n \div 10) \o <<Digits[(n % 10) + 1]>>

\* the lines "exit n" for the numbers up to MaxExitArg
ExitLines == {N_exit \o <<SP>> \o to_string(n) : n \in 0..MaxExitArg}

\* every line of spaces, tabs and carriage returns up to MaxBlankLen, with
\* its terminator and, at the end of the input, without it
BlankLines == UNION {[1..n -> {SP, TAB, CR}] : n \in 0..MaxBlankLen}

RawInputs ==
    {l \o <<NL>> : l \in GeneratedLines \cup SampleLines \cup ExitLines} \cup
    {l \o <<NL>> : l \in BlankLines} \cup BlankLines \cup
    {<<>>,
     <<SP, NL>>,
     <<CR, NL>>,
     <<TAB, SP, CR, NL>>,
     <<SP, "e", "c", "h", "o", SP, "a", CR, NL>>,
     <<"p", "w", "d">>,
     <<"p", "w", "d", CR, NL>>}

(***************************************************************************)
(* find_executable (src/src/main.rs:140-167).                              *)
(***************************************************************************)
RECURSIVE split_from(_, _, _, _)
\* str::split(sep): the pieces between the separators, empty pieces included
split_from(s, i, sep, piece) ==
    IF i > Len(s) THEN <<piece>>
    ELSE IF s[i] = sep THEN <<piece>> \o split_from(s, i + 1, sep, <<>>)
    ELSE split_from(s, i + 1, sep, Append(piece, s[i]))

split(s, sep) == split_from(s, 1, sep, <<>>)

\* the test of the inner loop: the entry is the name, or the name with the
\* executable suffix
entry_matches(file_name, executable_name) ==
    \/ file_name = executable_name
    \/ file_name = executable_name \o EXE_SUFFIX

RECURSIVE find_entry(_, _, _)
\* the inner loop: the index of the first matching entry from k on, 0 if none
find_entry(entries, k, executable_name) ==
    IF k > Len(entries) THEN 0
    ELSE IF entry_matches(entries[k], executable_name) THEN k
    ELSE find_entry(entries, k + 1, executable_name)

RECURSIVE find_in_paths_stop(_, _, _)
\* find_in_paths that gives up at the first directory it cannot list
find_in_paths_stop(paths, k, executable_name) ==
    IF k > Len(paths) THEN None
    ELSE LET entries == read_dir(paths[k]) IN
         IF ~entries.some THEN None
         ELSE LET e == find_entry(entries.val, 1, executable_name) IN
              IF e # 0 THEN Some(join_path(paths[k], entries.val[e]))
              ELSE find_in_paths_stop(paths, k + 1, executable_name)

RECURSIVE find_in_paths(_, _, _)
\* the outer loop over the pieces of the search path, from piece k on
find_in_paths(paths, k, executable_name) ==
    IF k > Len(paths) THEN None
    ELSE LET entries == read_dir(paths[k]) IN
         IF ~entries.some THEN find_in_paths(paths, k + 1, executable_name)
         ELSE LET e == find_entry(entries.val, 1, executable_name) IN
              IF e # 0 THEN Some(join_path(paths[k], entries.val[e]))
              ELSE find_in_paths(paths, k + 1, executable_name)

find_executable(search_path, executable_name) ==
    find_in_paths(split(search_path, SYSTEM_PATH_SPERATOR), 1, executable_name)

\* Command::new(program).output(): the operating system looks the bare name
\* up in PATH itself and runs the first file it can execute
spawn_ok(program) ==
    LET paths == split(SYSTEM_PATH, SYSTEM_PATH_SPERATOR) IN
    \E k \in 1..Len(paths) : is_executable_file(paths[k], program)

(***************************************************************************)
(* The builtins (src/src/main.rs:169-250).  A handler returns              *)
(* Result<Option<ExitCode>>; the model adds the working directory it       *)
(* leaves and the lines it prints.                                         *)
(***************************************************************************)
NoExit == -1

\* what print!/println! writes: the format string and its arguments
Printed(fmt, args) == [fmt |-> fmt, args |-> args]
SUCCESS == 0

HOk(exit_code, dir, out) ==
    [res |-> "Ok", exit_code |-> exit_code, cwd |-> dir, out |-> out,
     error |-> ""]
HErr(dir, error) ==
    [res |-> "Err", exit_code |-> NoExit, cwd |-> dir, out |-> <<>>,
     error |-> error]
HPanic(dir) ==
    [res |-> "Panic", exit_code |-> NoExit, cwd |-> dir, out |-> <<>>,
     error |-> ""]

is_digit(ch) == \E d \in 1..10 : Digits[d] = ch
to_digit(ch) == (CHOOSE d \in 1..10 : Digits[d] = ch) - 1

U8_MAX == 255

RECURSIVE parse_digits(_, _, _)
\* the digit loop of u8::from_str: an invalid digit or a value above
\* u8::MAX is an error
parse_digits(s, i, result) ==
    IF i > Len(s) THEN Some(result)
    ELSE IF ~is_digit(s[i]) THEN None
    ELSE LET r == result * 10 + to_digit(s[i]) IN
         IF r > U8_MAX THEN None
         ELSE parse_digits(s, i + 1, r)

\* str::parse::<u8>(): an optional "+" and at least one digit
parse_u8(s) ==
    IF s = <<>> THEN None
    ELSE IF s \in {<<"+">>, <<"-">>} THEN None
    ELSE IF Head(s) = "+" THEN parse_digits(Tail(s), 1, 0)
    ELSE parse_digits(s, 1, 0)

\* builtin_exit that checks its argument and then exits with success
builtin_exit_success(args, dir) ==
    IF args = <<>> THEN HOk(SUCCESS, dir, <<>>)
    ELSE IF ~parse_u8(args[1]).some
    THEN HErr(dir, "unable to parse exit code, it must be a number in the range [0,255]")
    ELSE HOk(SUCCESS, dir, <<>>)

builtin_exit(args, dir) ==
    IF args = <<>> THEN HOk(SUCCESS, dir, <<>>)
    ELSE LET exit_code == parse_u8(args[1]) IN
         IF ~exit_code.some
         THEN HErr(dir, "unable to parse exit code, it must be a number in the range [0,255]")
         ELSE HOk(exit_code.val, dir, <<>>)

RECURSIVE join(_, _)
\* args.join(sep)
join(args, sep) ==
    IF args = <<>> THEN <<>>
    ELSE IF Len(args) = 1 THEN args[1]
    ELSE args[1] \o <<sep>> \o join(Tail(args), sep)

builtin_echo(args, dir) ==
    HOk(NoExit, dir, <<Printed("{output}", <<join(args, SP)>>)>>)

BUILTINS == {N_exit, N_echo, N_type, N_pwd, N_cd}

\* type_line that asks the search path before the builtins
type_line_path_first(arg) ==
    LET executable_path == find_executable(SYSTEM_PATH, arg) IN
    IF executable_path.some
    THEN Printed("{arg} is {}", <<arg, executable_path.val>>)
    ELSE IF arg \in BUILTINS THEN Printed("{arg} is a shell builtin", <<arg>>)
    ELSE Printed("{arg}: not found", <<arg>>)

\* the line builtin_type prints for one argument
type_line(arg) ==
    IF arg \in BUILTINS THEN Printed("{arg} is a shell builtin", <<arg>>)
    ELSE LET executable_path == find_executable(SYSTEM_PATH, arg) IN
         IF executable_path.some
         THEN Printed("{arg} is {}", <<arg, executable_path.val>>)
         ELSE Printed("{arg}: not found", <<arg>>)

builtin_type(args, dir) ==
    HOk(NoExit, dir, [i \in 1..Len(args) |-> type_line(args[i])])

builtin_pwd(args, dir) ==
    HOk(NoExit, dir, <<Printed("{}", <<dir>>)>>)

\* builtin_cd that goes to the home directory when the path does not exist
builtin_cd_home_fallback(args, dir, home) ==
    IF Len(args) # 1 THEN HPanic(dir)
    ELSE LET input == args[1] IN
      IF input = TILDE THEN
        IF ~home.some THEN HErr(dir, "environment variable not found")
        ELSE IF ~set_current_dir_ok(home.val) THEN HErr(dir, "set_current_dir")
        ELSE HOk(NoExit, home.val, <<>>)
      ELSE LET input_path == canonicalize(dir, input) IN
        IF input_path.kind = "NotFound"
        THEN HOk(NoExit, IF home.some THEN home.val ELSE dir,
                 <<Printed("cd: {}: No such file or directory", <<input>>)>>)
        ELSE IF input_path.kind # "Ok" THEN HErr(dir, input_path.kind)
        ELSE IF ~set_current_dir_ok(input_path.path)
        THEN HErr(dir, "set_current_dir")
        ELSE HOk(NoExit, input_path.path, <<>>)

\* builtin_cd that passes every failure of canonicalize on with ?
builtin_cd_propagate(args, dir, home) ==
    IF Len(args) # 1 THEN HPanic(dir)
    ELSE LET input == args[1] IN
      IF input = TILDE THEN
        IF ~home.some THEN HErr(dir, "environment variable not found")
        ELSE IF ~set_current_dir_ok(home.val) THEN HErr(dir, "set_current_dir")
        ELSE HOk(NoExit, home.val, <<>>)
      ELSE LET input_path == canonicalize(dir, input) IN
        IF input_path.kind # "Ok" THEN HErr(dir, input_path.kind)
        ELSE IF ~set_current_dir_ok(input_path.path)
        THEN HErr(dir, "set_current_dir")
        ELSE HOk(NoExit, input_path.path, <<>>)

builtin_cd(args, dir, home) ==
    IF Len(args) # 1 THEN HPanic(dir)
    ELSE LET input == args[1] IN
      IF input = TILDE THEN
        IF ~home.some THEN HErr(dir, "environment variable not found")
        ELSE IF ~set_current_dir_ok(home.val) THEN HErr(dir, "set_current_dir")
        ELSE HOk(NoExit, home.val, <<>>)
      ELSE LET input_path == canonicalize(dir, input) IN
        IF input_path.kind = "NotFound"
        THEN HOk(NoExit, dir,
                 <<Printed("cd: {}: No such file or directory", <<input>>)>>)
        ELSE IF input_path.kind # "Ok" THEN HErr(dir, input_path.kind)
        ELSE IF ~set_current_dir_ok(input_path.path)
        THEN HErr(dir, "set_current_dir")
        ELSE HOk(NoExit, input_path.path, <<>>)

(***************************************************************************)
(* main (src/src/main.rs:32-75): the read-eval-print loop.                 *)
(***************************************************************************)
VARIABLES
    pc,      \* where main is: "Prompting", "Reading", "Parsing",
             \* "Dispatching", or ended: "Exited", "Failed", "Panicked"
    raw,     \* what read_line returned: the number of bytes and the buffer
    eof,     \* standard input has reached an end of file that stays
    line,    \* input, the trimmed line handed to parse
    cmd,     \* the Cmd parse returned
    cwd,     \* the working directory of the process
    home,    \* the environment variable HOME
    stdout,  \* what the shell has printed since the latest prompt
    status,  \* the exit status of the process once main has ended
    error,   \* the context of the error main returned, "" if none
    last     \* the dispatch before this one: its branch, its builtin, how
             \* many lines it printed and the working directory it started in

vars == <<pc, raw, eof, line, cmd, cwd, home, stdout, status, error, last,
          SYSTEM_PATH>>

Running == -1
\* the status of a process whose main returns Err, and of one that panics
EXIT_FAILURE == 1
EXIT_PANIC == 101

PROMPT == <<"$", SP>>

NoCmd == Cmd(<<>>, <<>>)
NoLast == [branch |-> "none", handler |-> <<>>, printed |-> 0, cwd |-> <<>>]
\* before read_line has returned
NoRead == [n |-> -1, buf |-> <<>>]

Init ==
    /\ pc = "Prompting"
    /\ raw = NoRead
    /\ eof = FALSE
    /\ SYSTEM_PATH = ENV_PATH
    /\ line = <<>>
    /\ cmd = NoCmd
    /\ cwd = D_root
    /\ home \in {Some(D_h), None}
    /\ stdout = <<>>
    /\ status = Running
    /\ error = ""
    /\ last = NoLast

\* print!("{prompt}"), the flush, and the new empty input buffer
Prompt ==
    /\ pc = "Prompting"
    /\ pc' = "Reading"
    /\ stdout' = <<Printed("{prompt}", <<PROMPT>>)>>
    /\ raw' = NoRead
    /\ UNCHANGED <<eof, line, cmd, cwd, home, status, error, last,
                   SYSTEM_PATH>>

\* after_read without the test for an empty line
after_read_no_skip(input) == "Parsing"

\* if input.is_empty() { continue; }: an empty line goes back to the prompt,
\* any other line goes on to parse
after_read(input) == IF input = <<>> THEN "Prompting" ELSE "Parsing"

\* read_line succeeds, the line is trimmed, and an empty line is skipped.
\* A read of zero bytes is the end of the input: of a file or a pipe, where
\* every later read is of zero bytes too, or of a terminal, where it is not.
ReadLine ==
    /\ pc = "Reading"
    /\ \E buf \in IF eof THEN {<<>>} ELSE RawInputs :
         LET input == trim_newline(trim_start(buf)) IN
         /\ raw' = [n |-> Len(buf), buf |-> buf]
         /\ pc' = after_read(input)
         /\ line' = input
         /\ eof' \in IF eof THEN {TRUE}
                     ELSE IF buf = <<>> THEN {TRUE, FALSE}
                     ELSE {FALSE}
    /\ UNCHANGED <<cmd, cwd, home, stdout, status, error, last, SYSTEM_PATH>>

\* read_line fails and the unwrap panics; a read at the end of the input
\* does not fail, it returns zero bytes
ReadError ==
    /\ pc = "Reading"
    /\ ~eof
    /\ pc' = "Panicked"
    /\ status' = EXIT_PANIC
    /\ UNCHANGED <<raw, eof, line, cmd, cwd, home, stdout, error, last,
                   SYSTEM_PATH>>

\* what main does with the result of parse: Ok goes on to the dispatch, Err
\* leaves main through the ? operator, a panic ends the process
after_parse(r) ==
    IF r.kind = "Ok"
    THEN [pc |-> "Dispatching", status |-> Running, error |-> ""]
    ELSE IF r.kind = "Err"
    THEN [pc |-> "Failed", status |-> EXIT_FAILURE,
          error |-> "unable to parse prompt"]
    ELSE [pc |-> "Panicked", status |-> EXIT_PANIC, error |-> ""]

\* let cmd = parse(input).context("unable to parse prompt")?
ParseLine ==
    /\ pc = "Parsing"
    /\ LET r == parse(line) IN
       /\ pc' = after_parse(r).pc
       /\ status' = after_parse(r).status
       /\ error' = after_parse(r).error
       /\ cmd' = r.cmd
    /\ UNCHANGED <<raw, eof, line, cwd, home, stdout, last, SYSTEM_PATH>>

\* dispatch that asks the search path before the builtins
dispatch_path_first(program) ==
    IF find_executable(SYSTEM_PATH, program).some THEN "external"
    ELSE IF program \in BUILTINS THEN "builtin"
    ELSE "not_found"

\* the if / else if / else of the dispatch
dispatch(program) ==
    IF program \in BUILTINS THEN "builtin"
    ELSE IF find_executable(SYSTEM_PATH, program).some THEN "external"
    ELSE "not_found"

\* what main does with the result of a builtin: Err leaves main through the
\* ? operator, Some(exit_code) returns it, None goes round the loop
after_builtin(r) ==
    IF r.res = "Err"
    THEN [pc |-> "Failed", status |-> EXIT_FAILURE, error |-> r.error]
    ELSE IF r.res = "Panic"
    THEN [pc |-> "Panicked", status |-> EXIT_PANIC, error |-> ""]
    ELSE IF r.exit_code # NoExit
    THEN [pc |-> "Exited", status |-> r.exit_code, error |-> ""]
    ELSE [pc |-> "Prompting", status |-> Running, error |-> ""]

\* the builtin branch, for the handler registered under name
RunBuiltin(name, r) ==
    /\ pc = "Dispatching"
    /\ dispatch(cmd.program) = "builtin"
    /\ cmd.program = name
    /\ pc' = after_builtin(r).pc
    /\ status' = after_builtin(r).status
    /\ cwd' = r.cwd
    /\ stdout' = stdout \o r.out
    /\ error' = after_builtin(r).error
    /\ cmd' = IF after_builtin(r).pc = "Prompting" THEN NoCmd ELSE cmd
    /\ line' = IF after_builtin(r).pc = "Prompting" THEN <<>> ELSE line
    /\ last' = [branch |-> "builtin", handler |-> name,
                printed |-> Len(r.out), cwd |-> cwd]
    /\ UNCHANGED <<raw, eof, home, SYSTEM_PATH>>

Exit == RunBuiltin(N_exit, builtin_exit(cmd.args, cwd))
Echo == RunBuiltin(N_echo, builtin_echo(cmd.args, cwd))
Type == RunBuiltin(N_type, builtin_type(cmd.args, cwd))
Pwd == RunBuiltin(N_pwd, builtin_pwd(cmd.args, cwd))
Cd == RunBuiltin(N_cd, builtin_cd(cmd.args, cwd, home))

\* output.stdout, the bytes the child wrote to its standard output
child_stdout(program, args) == Printed("output.stdout", <<program>> \o args)

\* the branch of a program find_executable finds: the process is spawned by
\* its bare name, the unwrap panics when the spawn fails, and the captured
\* standard output of the child is written through
RunExternal ==
    /\ pc = "Dispatching"
    /\ dispatch(cmd.program) = "external"
    /\ IF spawn_ok(cmd.program)
       THEN /\ pc' = "Prompting"
            /\ status' = status
            /\ stdout' = stdout \o <<child_stdout(cmd.program, cmd.args)>>
            /\ cmd' = NoCmd
            /\ line' = <<>>
       ELSE /\ pc' = "Panicked"
            /\ status' = EXIT_PANIC
            /\ stdout' = stdout
            /\ cmd' = cmd
            /\ line' = line
    /\ last' = [branch |-> "external", handler |-> <<>>,
                printed |-> 0, cwd |-> cwd]
    /\ UNCHANGED <<raw, eof, cwd, home, error, SYSTEM_PATH>>

\* the else branch
CommandNotFound ==
    /\ pc = "Dispatching"
    /\ dispatch(cmd.program) = "not_found"
    /\ pc' = "Prompting"
    /\ stdout' = stdout \o
                <<Printed("{program}: command not found", <<cmd.program>>)>>
    /\ cmd' = NoCmd
    /\ line' = <<>>
    /\ last' = [branch |-> "not_found", handler |-> <<>>,
                printed |-> 1, cwd |-> cwd]
    /\ UNCHANGED <<raw, eof, cwd, home, status, error, SYSTEM_PATH>>

Next ==
    \/ Prompt
    \/ ReadLine
    \/ ReadError
    \/ ParseLine
    \/ Exit
    \/ Echo
    \/ Type
    \/ Pwd
    \/ Cd
    \/ RunExternal
    \/ CommandNotFound

Spec == Init /\ [][Next]_vars

TypeOK ==
    /\ pc \in {"Prompting", "Reading", "Parsing", "Dispatching",
               "Exited", "Failed", "Panicked"}
    /\ status \in {Running, EXIT_FAILURE, EXIT_PANIC} \cup 0..U8_MAX
    /\ cwd \in Directories

(***************************************************************************)
(* parse on its own: every non-empty line over Alphabet up to MaxParseLen, *)
(* lines that start with whitespace included, is handed to parse once.     *)
(***************************************************************************)
ParseLines == UNION {[1..n -> Alphabet] : n \in 1..MaxParseLen}

InitParse ==
    /\ pc = "Parsing"
    /\ raw = NoRead
    /\ eof = FALSE
    /\ SYSTEM_PATH = ENV_PATH
    /\ line \in ParseLines
    /\ cmd = NoCmd
    /\ cwd = D_root
    /\ home = Some(D_h)
    /\ stdout = <<Printed("{prompt}", <<PROMPT>>)>>
    /\ status = Running
    /\ error = ""
    /\ last = NoLast

NextParse == ParseLine

SpecParse == InitParse /\ [][NextParse]_vars

(***************************************************************************)
(* The tokenizer the specification describes, as a scan with the modes     *)
(* Normal, Single (inside '...'), Double (inside "...") and Escape (after  *)
(* a backslash outside quotes).  It yields the mode the line ends in, the  *)
(* literal text of the line in order, and the number of whitespace         *)
(* characters outside quotes and escapes.                                  *)
(***************************************************************************)
RECURSIVE Scan(_, _, _)
Scan(s, i, st) ==
    IF i > Len(s) THEN st
    ELSE LET ch == s[i] IN
      IF st.mode = "Escape"
      THEN Scan(s, i + 1, [st EXCEPT !.mode = "Normal",
                                     !.text = Append(@, ch)])
      ELSE IF st.mode = "Single"
      THEN IF ch = SQ THEN Scan(s, i + 1, [st EXCEPT !.mode = "Normal"])
           ELSE Scan(s, i + 1, [st EXCEPT !.text = Append(@, ch)])
      ELSE IF st.mode = "Double"
      THEN IF ch = DQ THEN Scan(s, i + 1, [st EXCEPT !.mode = "Normal"])
           ELSE Scan(s, i + 1, [st EXCEPT !.text = Append(@, ch)])
      ELSE IF ch = SQ THEN Scan(s, i + 1, [st EXCEPT !.mode = "Single"])
      ELSE IF ch = DQ THEN Scan(s, i + 1, [st EXCEPT !.mode = "Double"])
      ELSE IF ch = BS THEN Scan(s, i + 1, [st EXCEPT !.mode = "Escape"])
      ELSE IF ch \in {SP, TAB, NL, CR}
      THEN Scan(s, i + 1, [st EXCEPT !.spaces = @ + 1])
      ELSE Scan(s, i + 1, [st EXCEPT !.text = Append(@, ch)])

Scanned(s) == Scan(s, 1, [mode |-> "Normal", text |-> <<>>, spaces |-> 0])

RECURSIVE Items(_, _, _)
\* the items of a line made of plain words and quoted spans that are
\* separated by whitespace, quotes removed; ok is FALSE for any other line
Items(s, i, items) ==
    IF i > Len(s) THEN [ok |-> TRUE, items |-> items]
    ELSE LET ch == s[i] IN
      IF ch \in {SP, TAB, NL, CR} THEN Items(s, i + 1, items)
      ELSE IF ch = BS THEN [ok |-> FALSE, items |-> items]
      ELSE IF ch \in {SQ, DQ}
      THEN LET closing == {j \in (i + 1)..Len(s) : s[j] = ch} IN
           IF closing = {} THEN [ok |-> FALSE, items |-> items]
           ELSE LET j == CHOOSE k \in closing : \A m \in closing : k <= m IN
                IF j < Len(s) /\ s[j + 1] \notin {SP, TAB, NL, CR}
                THEN [ok |-> FALSE, items |-> items]
                ELSE Items(s, j + 1, Append(items, SubSeq(s, i + 1, j - 1)))
      ELSE LET stops == {j \in i..Len(s) : s[j] \in {SP, TAB, NL, CR, SQ, DQ, BS}}
               e == IF stops = {} THEN Len(s) + 1
                    ELSE CHOOSE k \in stops : \A m \in stops : k <= m
           IN IF e <= Len(s) /\ s[e] \in {SQ, DQ, BS}
              THEN [ok |-> FALSE, items |-> items]
              ELSE Items(s, e, Append(items, SubSeq(s, i, e - 1)))

RECURSIVE Flatten(_)
Flatten(tokens) ==
    IF tokens = <<>> THEN <<>> ELSE Head(tokens) \o Flatten(Tail(tokens))

\* the tokens of the Cmd being dispatched
Tokens == <<cmd.program>> \o cmd.args

L_echo_ab_c == <<"e", "c", "h", "o", SP, SQ, "a", SP, "b", SQ, SP, "c">>

(***************************************************************************)
(* C1: for every line made of plain words and quoted spans separated by    *)
(* runs of whitespace, the tokens of the dispatched Cmd are exactly the    *)
(* items of the line (no empty token comes from whitespace), and the line  *)
(* echo 'a b' c gives program echo and args <<"a b", "c">>.                *)
(***************************************************************************)
C1_NoEmptyTokenFromWhitespace ==
    pc = "Dispatching" =>
      /\ Items(line, 1, <<>>).ok => Tokens = Items(line, 1, <<>>).items
      /\ line = L_echo_ab_c =>
           cmd = Cmd(N_echo, << <<"a", SP, "b">>, <<"c">> >>)

(***************************************************************************)
(* C2: for every line parse accepts, the tokens come out in the order      *)
(* their text has in the line: the tokens, concatenated, are the literal   *)
(* text of the line.                                                       *)
(***************************************************************************)
C2_TokensInLineOrder ==
    pc = "Dispatching" => Flatten(Tokens) = Scanned(line).text

(***************************************************************************)
(* C3: a quoted span does not start or end a token: a line without         *)
(* whitespace outside quotes and escapes is one token, its literal text.   *)
(***************************************************************************)
C3_QuotedSpanJoinsToken ==
    (pc = "Dispatching" /\ Scanned(line).spaces = 0) =>
      cmd = Cmd(Scanned(line).text, <<>>)

(***************************************************************************)
(* C4: for every non-empty line, parse returns an error exactly when the   *)
(* line ends inside a single or double quote or right after a backslash    *)
(* outside quotes; for every other line it returns a Cmd.                  *)
(***************************************************************************)
C4_ErrorIffUnclosedOrDangling ==
    [][pc = "Parsing" =>
         /\ (pc' = "Failed") <=> (Scanned(line).mode # "Normal")
         /\ (pc' = "Dispatching") <=> (Scanned(line).mode = "Normal")
         /\ (pc' = "Failed") => error' = "unable to parse prompt"]_vars

\* a line that ends in a backslash has been refused, and so has one with an
\* open quote after a closed span
C4_Witness ==
    /\ pc = "Failed"
    /\ Len(line) = MaxParseLen
    /\ Scanned(line).mode = "Escape"
    /\ line[1] = SP

(***************************************************************************)
(* C5: a failure of parse (unterminated quote, dangling escape) is not     *)
(* fatal: the working directory is unchanged, the loop is back at          *)
(* Prompting, and the process has not exited.                              *)
(***************************************************************************)
C5_ParseFailureNotFatal ==
    [][(pc = "Parsing" /\ Scanned(line).mode # "Normal") =>
         (pc' = "Prompting" /\ cwd' = cwd /\ status' = Running)]_vars

(***************************************************************************)
(* C6: exit with an argument that is not the text of a number in 0..255    *)
(* does not terminate: no exit status is set and the loop is back at       *)
(* Prompting.                                                              *)
(***************************************************************************)
C6_BadExitArgumentNotFatal ==
    [][(/\ pc = "Dispatching"
        /\ cmd.program = N_exit
        /\ cmd.args # <<>>
        /\ ~parse_u8(cmd.args[1]).some) =>
         (pc' = "Prompting" /\ status' = Running)]_vars

(***************************************************************************)
(* C7: exit without argument ends the loop with status 0, exit with the    *)
(* decimal text of n, 0 <= n <= 255, ends it with status n, and nothing    *)
(* happens once the loop has exited.                                       *)
(***************************************************************************)
C7_ExitStatus ==
    [][/\ pc # "Exited"
       /\ (pc = "Dispatching" /\ cmd.program = N_exit) =>
            /\ cmd.args = <<>> => (pc' = "Exited" /\ status' = 0)
            /\ \A n \in 0..255 :
                 cmd.args = <<to_string(n)>> =>
                   (pc' = "Exited" /\ status' = n)]_vars

\* exit 200 has ended the loop
C7_Witness ==
    /\ pc = "Exited"
    /\ cmd = Cmd(N_exit, << <<"2", "0", "0">> >>)
    /\ status = 200

(***************************************************************************)
(* C8: whenever a Cmd is dispatched its program is a non-empty string.     *)
(***************************************************************************)
C8_ProgramNonEmpty ==
    pc = "Dispatching" => cmd.program # <<>>

(***************************************************************************)
(* C9: the dispatch takes exactly one branch, by priority: a builtin name  *)
(* runs its handler and spawns nothing, also when the search path has an   *)
(* entry of that name; any other name the search path has is spawned; any  *)
(* other name prints "<program>: command not found" and the loop is back   *)
(* at Prompting.                                                           *)
(***************************************************************************)
C9_DispatchPriority ==
    [][pc = "Dispatching" =>
         LET found == find_executable(SYSTEM_PATH, cmd.program).some
             spawned == \E i \in 1..Len(stdout') :
                           stdout'[i].fmt = "output.stdout"
         IN /\ cmd.program \in BUILTINS =>
                 /\ last'.branch = "builtin"
                 /\ last'.handler = cmd.program
                 /\ ~spawned
            /\ (cmd.program \notin BUILTINS /\ found) =>
                 /\ last'.branch = "external"
                 /\ pc' = "Prompting" => spawned
            /\ (cmd.program \notin BUILTINS /\ ~found) =>
                 /\ last'.branch = "not_found"
                 /\ stdout' = stdout \o
                      <<Printed("{program}: command not found",
                                <<cmd.program>>)>>
                 /\ pc' = "Prompting"
                 /\ status' = Running]_vars

\* echo, which is also an entry of the search path, ran as a builtin
C9_Witness ==
    /\ pc = "Prompting"
    /\ last.branch = "builtin"
    /\ last.handler = N_echo
    /\ find_executable(SYSTEM_PATH, N_echo).some
    /\ Len(stdout) = 2
    /\ stdout[2].fmt = "{output}"

(***************************************************************************)
(* C10: cd with one argument that names no existing path leaves the        *)
(* working directory unchanged, prints                                     *)
(* "cd: <path>: No such file or directory", asks for no termination, and   *)
(* a pwd right after it prints the directory the cd started in.            *)
(***************************************************************************)
C10_CdNonexistent ==
    [][/\ (/\ pc = "Dispatching"
           /\ cmd.program = N_cd
           /\ Len(cmd.args) = 1
           /\ cmd.args[1] # TILDE
           /\ canonicalize(cwd, cmd.args[1]).kind = "NotFound") =>
            /\ cwd' = cwd
            /\ stdout' = stdout \o
                 <<Printed("cd: {}: No such file or directory",
                           <<cmd.args[1]>>)>>
            /\ pc' = "Prompting"
            /\ status' = Running
       /\ (/\ pc = "Dispatching"
           /\ cmd.program = N_pwd
           /\ last.handler = N_cd
           /\ last.printed = 1) =>
            stdout' = stdout \o <<Printed("{}", <<last.cwd>>)>>]_vars

\* in /a, cd b has printed its message and the shell is still in /a
C10_Witness ==
    /\ pc = "Prompting"
    /\ last.branch = "builtin"
    /\ last.handler = N_cd
    /\ last.cwd = D_a
    /\ cwd = D_a
    /\ stdout = <<Printed("{prompt}", <<PROMPT>>),
                  Printed("cd: {}: No such file or directory", <<N_b>>)>>

(***************************************************************************)
(* C11: type prints exactly one line per argument, in argument order: for  *)
(* exit, echo, type, pwd and cd the line "<name> is a shell builtin", also *)
(* when the search path has an entry of that name, and for any other name  *)
(* what the search gives, "<name> is <path>" or "<name>: not found".       *)
(***************************************************************************)
C11_TypeLines ==
    [][(pc = "Dispatching" /\ cmd.program = N_type) =>
         /\ Len(stdout') = Len(stdout) + Len(cmd.args)
         /\ SubSeq(stdout', 1, Len(stdout)) = stdout
         /\ \A i \in 1..Len(cmd.args) :
              LET arg == cmd.args[i]
                  printed == stdout'[Len(stdout) + i]
                  executable_path == find_executable(SYSTEM_PATH, arg)
              IN IF arg \in {N_exit, N_echo, N_type, N_pwd, N_cd}
                 THEN printed = Printed("{arg} is a shell builtin", <<arg>>)
                 ELSE IF executable_path.some
                 THEN printed = Printed("{arg} is {}",
                                        <<arg, executable_path.val>>)
                 ELSE printed = Printed("{arg}: not found", <<arg>>)
         /\ pc' = "Prompting"
         /\ status' = Running]_vars

\* type echo a has printed that echo, an entry of /x, is a builtin and
\* that a is /x/a
C11_Witness ==
    /\ pc = "Prompting"
    /\ last.handler = N_type
    /\ find_executable(SYSTEM_PATH, N_echo).some
    /\ stdout = <<Printed("{prompt}", <<PROMPT>>),
                  Printed("{arg} is a shell builtin", <<N_echo>>),
                  Printed("{arg} is {}", <<N_a, <<"/", "x", "/", "a">> >>)>>

(***************************************************************************)
(* find_executable on its own: type is dispatched once with one name, for  *)
(* every search path of up to MaxPathDirs directories, among them a        *)
(* missing directory, an empty one and the empty string.                   *)
(***************************************************************************)
PathDirs == {D_m, D_x, D_y, D_a, D_root, <<>>}

SearchDirSeqs == UNION {[1..n -> PathDirs] : n \in 1..MaxPathDirs}

\* the value of PATH that names the directories dirs
path_of(dirs) == join(dirs, SYSTEM_PATH_SPERATOR)

FindNames == {N_a, N_b, N_ls, N_f, N_zz}

InitFind ==
    \E dirs \in SearchDirSeqs, name \in FindNames :
      /\ pc = "Dispatching"
      /\ raw = [n |-> Len(name) + 6, buf |-> N_type \o <<SP>> \o name \o <<NL>>]
      /\ eof = FALSE
      /\ SYSTEM_PATH = path_of(dirs)
      /\ line = N_type \o <<SP>> \o name
      /\ cmd = Cmd(N_type, <<name>>)
      /\ cwd = D_root
      /\ home = Some(D_h)
      /\ stdout = <<Printed("{prompt}", <<PROMPT>>)>>
      /\ status = Running
      /\ error = ""
      /\ last = NoLast

NextFind == Type

SpecFind == InitFind /\ [][NextFind]_vars

\* the directories SYSTEM_PATH names, in order
DirsOfPath == CHOOSE dirs \in SearchDirSeqs : path_of(dirs) = SYSTEM_PATH

\* the directory can be listed and has an entry called name
HasEntry(dir, name) ==
    /\ read_dir(dir).some
    /\ \E e \in 1..Len(read_dir(dir).val) : read_dir(dir).val[e] = name

(***************************************************************************)
(* C12: find_executable returns the entry of the earliest directory of the *)
(* search path that can be listed and has an entry with the searched name  *)
(* (or the name with the executable suffix), skipping the directories that *)
(* cannot be listed, and returns nothing exactly when no listable          *)
(* directory has such an entry.                                            *)
(***************************************************************************)
C12_FirstMatchInPathOrder ==
    [][(/\ pc = "Dispatching"
        /\ cmd.program = N_type
        /\ Len(cmd.args) = 1
        /\ cmd.args[1] \notin BUILTINS) =>
         LET name == cmd.args[1]
             hits == {k \in 1..Len(DirsOfPath) :
                        \/ HasEntry(DirsOfPath[k], name)
                        \/ HasEntry(DirsOfPath[k], name \o EXE_SUFFIX)}
             first == CHOOSE k \in hits : \A m \in hits : k <= m
         IN /\ hits = {} =>
                 stdout' = stdout \o <<Printed("{arg}: not found", <<name>>)>>
            /\ hits # {} =>
                 stdout' = stdout \o
                   <<Printed("{arg} is {}",
                             <<name, join_path(DirsOfPath[first], name)>>)>>]_vars

\* with the search path /m:/y:/x, where /m cannot be listed and both /y and
\* /x have an entry a, the search for a has returned /y/a
C12_Witness ==
    /\ pc = "Prompting"
    /\ SYSTEM_PATH = path_of(<<D_m, D_y, D_x>>)
    /\ stdout = <<Printed("{prompt}", <<PROMPT>>),
                  Printed("{arg} is {}", <<N_a, <<"/", "y", "/", "a">> >>)>>

RECURSIVE EscapedWords(_, _, _, _, _)
\* the words of a line without quoted spans: whitespace that no backslash
\* escapes separates them, and a backslash makes the next character part of
\* the word; ok is FALSE for a line with a quote no backslash escapes or
\* with a backslash at its end
EscapedWords(s, i, words, word, started) ==
    IF i > Len(s)
    THEN [ok |-> TRUE, words |-> IF started THEN Append(words, word) ELSE words]
    ELSE IF s[i] = BS
    THEN IF i = Len(s) THEN [ok |-> FALSE, words |-> words]
         ELSE EscapedWords(s, i + 2, words, Append(word, s[i + 1]), TRUE)
    ELSE IF s[i] \in {SQ, DQ} THEN [ok |-> FALSE, words |-> words]
    ELSE IF s[i] \in {SP, TAB, NL, CR}
    THEN IF started THEN EscapedWords(s, i + 1, Append(words, word), <<>>, FALSE)
         ELSE EscapedWords(s, i + 1, words, word, FALSE)
    ELSE EscapedWords(s, i + 1, words, Append(word, s[i]), TRUE)

\* the line is one quoted span: a quote, text without that quote, the quote
IsOneSpan(s) ==
    /\ Len(s) >= 2
    /\ s[1] \in {SQ, DQ}
    /\ s[Len(s)] = s[1]
    /\ \A j \in 2..(Len(s) - 1) : s[j] # s[1]

L_echo_a_esc_b == <<"e", "c", "h", "o", SP, "a", BS, SP, "b">>

(***************************************************************************)
(* C13: a backslash outside quotes makes exactly the next character a      *)
(* literal part of the current token: in a line without quoted spans the   *)
(* tokens are the words that unescaped whitespace separates, so an escaped *)
(* space does not split and an escaped quote opens no span, and            *)
(* echo a\ b has the one argument "a b".  Inside a quoted span a backslash *)
(* is copied as it is: a line that is one quoted span is one token, the    *)
(* text between the quotes.                                                *)
(***************************************************************************)
C13_BackslashEscapes ==
    pc = "Dispatching" =>
      /\ EscapedWords(line, 1, <<>>, <<>>, FALSE).ok =>
           Tokens = EscapedWords(line, 1, <<>>, <<>>, FALSE).words
      /\ IsOneSpan(line) => cmd = Cmd(SubSeq(line, 2, Len(line) - 1), <<>>)
      /\ line = L_echo_a_esc_b => cmd = Cmd(N_echo, << <<"a", SP, "b">> >>)

\* echo a\ b is dispatched with the one argument "a b"
C13_Witness ==
    /\ pc = "Dispatching"
    /\ line = L_echo_a_esc_b
    /\ cmd = Cmd(N_echo, << <<"a", SP, "b">> >>)

\* the buffer read_line filled holds nothing but whitespace
IsBlank(buf) == \A j \in 1..Len(buf) : buf[j] \in {SP, TAB, CR, NL}

(***************************************************************************)
(* C14: when read_line returns an empty or all-whitespace line (spaces,    *)
(* tabs, carriage returns, the line terminator), the loop goes from        *)
(* Reading straight back to Prompting: nothing is printed, parse is not    *)
(* called, nothing is dispatched; and what Prompting prints next is the    *)
(* prompt.                                                                 *)
(***************************************************************************)
C14_BlankLineSkipped ==
    [][/\ (pc = "Reading" /\ raw'.n >= 0 /\ IsBlank(raw'.buf)) =>
            /\ pc' = "Prompting"
            /\ stdout' = stdout
            /\ cmd' = cmd
            /\ last' = last
            /\ cwd' = cwd
            /\ status' = Running
       /\ pc = "Prompting" =>
            /\ pc' = "Reading"
            /\ stdout' = <<Printed("{prompt}", <<PROMPT>>)>>]_vars

\* a line of a tab, a space, a carriage return and the terminator was read
\* and the loop is back at Prompting with only the prompt printed
C14_Witness ==
    /\ pc = "Prompting"
    /\ raw = [n |-> 4, buf |-> <<TAB, SP, CR, NL>>]
    /\ stdout = <<Printed("{prompt}", <<PROMPT>>)>>
    /\ cmd = NoCmd

\* the cd being dispatched has one argument and its target resolves to a
\* directory, or its target does not exist
CdResolvesOrNotFound ==
    /\ Len(cmd.args) = 1
    /\ IF cmd.args[1] = TILDE
       THEN home.some /\ home.val \in Directories
       ELSE \/ canonicalize(cwd, cmd.args[1]).kind = "NotFound"
            \/ /\ canonicalize(cwd, cmd.args[1]).kind = "Ok"
               /\ canonicalize(cwd, cmd.args[1]).path \in Directories

(***************************************************************************)
(* C15: the loop reaches Exited only in a step that dispatches the exit    *)
(* builtin, and after echo, type, pwd, a cd that succeeds or whose target  *)
(* does not exist, an external command or a command that is not found, the *)
(* loop is back at Prompting.                                              *)
(***************************************************************************)
C15_ExitedOnlyByExit ==
    [][/\ pc' = "Exited" => (pc = "Dispatching" /\ cmd.program = N_exit)
       /\ (/\ pc = "Dispatching"
           /\ \/ cmd.program \in {N_echo, N_type, N_pwd}
              \/ cmd.program = N_cd /\ CdResolvesOrNotFound
              \/ cmd.program \notin {N_exit, N_echo, N_type, N_pwd, N_cd}) =>
            pc' = "Prompting"]_vars

(***************************************************************************)
(* C16: cd with no argument or with more than one argument is an argument  *)
(* error that is reported, not a fatal fault: the working directory is     *)
(* unchanged, the process has not ended, and the loop is back at Prompting.*)
(***************************************************************************)
C16_CdArgumentCountNotFatal ==
    [][(pc = "Dispatching" /\ cmd.program = N_cd /\ Len(cmd.args) # 1) =>
         (pc' = "Prompting" /\ cwd' = cwd /\ status' = Running)]_vars

(***************************************************************************)
(* C17: the working directory changes only in a step that dispatches cd    *)
(* with one argument whose target resolves to a directory, and then to     *)
(* that directory; every other step leaves it as it is; and the search     *)
(* path is in every state what it was at startup (the builtin table is the *)
(* fixed set BUILTINS).                                                    *)
(***************************************************************************)
C17_CwdChangesOnlyByCd ==
    [][/\ cwd' # cwd =>
            /\ pc = "Dispatching"
            /\ cmd.program = N_cd
            /\ Len(cmd.args) = 1
            /\ IF cmd.args[1] = TILDE
               THEN home.some /\ cwd' = home.val
               ELSE /\ canonicalize(cwd, cmd.args[1]).kind = "Ok"
                    /\ cwd' = canonicalize(cwd, cmd.args[1]).path
            /\ cwd' \in Directories
            /\ pc' = "Prompting"
       /\ SYSTEM_PATH' = SYSTEM_PATH
       /\ SYSTEM_PATH = ENV_PATH
       /\ home' = home]_vars

\* cd a has moved the shell from / to /a
C17_Witness ==
    /\ pc = "Prompting"
    /\ last.handler = N_cd
    /\ last.cwd = D_root
    /\ cwd = D_a

(***************************************************************************)
(* The loop under the scheduling of a running process: main keeps taking   *)
(* its next step, so a prompt that can be printed is printed and a read    *)
(* that can return returns.                                                *)
(***************************************************************************)
FairSpec == Spec /\ WF_vars(Prompt) /\ WF_vars(ReadLine)

(***************************************************************************)
(* C18: a read of zero bytes at the end of the input is taken as an empty  *)
(* line and the loop goes back to Prompting; once the input stays at its   *)
(* end the loop prints the prompt and reads again and again, and never     *)
(* reaches Exited, an error or a panic.                                    *)
(***************************************************************************)
C18_EndOfInputLoops ==
    /\ [][(pc = "Reading" /\ raw'.n = 0) =>
            (pc' = "Prompting" /\ status' = Running /\ stdout' = stdout)]_vars
    /\ [](eof => (pc \in {"Prompting", "Reading"} /\ status = Running))
    /\ [][eof => eof']_vars
    /\ (eof /\ pc = "Prompting") ~> (pc = "Reading")
    /\ (eof /\ pc = "Reading") ~> (pc = "Prompting")

\* the input is at its end, a read has returned zero bytes, and the loop is
\* back at Prompting
C18_Witness ==
    /\ eof
    /\ pc = "Prompting"
    /\ raw = [n |-> 0, buf |-> <<>>]
    /\ status = Running

(***************************************************************************)
(* C19: whenever find_executable finds an entry for a program name that is *)
(* no builtin, the dispatch completes and the loop is back at Prompting,   *)
(* whether or not the launch of the program succeeds.                      *)
(***************************************************************************)
C19_ExternalDispatchCompletes ==
    [][(/\ pc = "Dispatching"
        /\ cmd.program \notin BUILTINS
        /\ find_executable(SYSTEM_PATH, cmd.program).some) =>
         (pc' = "Prompting" /\ status' = Running)]_vars

(***************************************************************************)
(* C20: the unchecked operations of parse never fail on a line the loop    *)
(* hands to it: the line is not empty, and when the scan ends without a    *)
(* quote or escape error there is a first token to take as program, so     *)
(* parse never panics.                                                     *)
(***************************************************************************)
C20_ParseNeverPanics ==
    /\ [](pc = "Parsing" => (line # <<>> /\ parse(line).kind # "Panic"))
    /\ [][pc = "Parsing" => pc' \in {"Dispatching", "Failed"}]_vars

\* the line '' has gone through parse: its one token is the empty span
C20_Witness ==
    /\ pc = "Dispatching"
    /\ line = <<SQ, SQ>>
    /\ cmd = Cmd(<<>>, <<>>)

====
